---------------------------- MODULE Spec2Model ----------------------------
(***************************************************************************)
(* Model of msaf/run.py: the segmentation orchestration of MSAF.           *)
(*                                                                         *)
(*   get_boundaries_module / get_labels_module   identifier resolution     *)
(*   run_algorithms                              the decision tree         *)
(*   process_track                               the per-track pipeline    *)
(*   process                                     single file / collection  *)
(*                                                                         *)
(* run_algorithms, process_track and process are modelled statement by     *)
(* statement: each has a program counter (ra_pc, pt_pc, pr_pc) and one     *)
(* action per statement group of the source.  What the code obtains from   *)
(* its collaborators (features, the jams file, the reference annotation,   *)
(* the output of a Segmenter) is drawn from bounded sets at the statement  *)
(* that reads it.  Python's None is the string "None"; frame indices are   *)
(* 0-based as in the source, sequences are 1-based.                        *)
(***************************************************************************)
EXTENDS Integers, Sequences, FiniteSets

\* ------------------------------------------------------------------ bounds

\* Largest number of frames (hpcp.shape[0]) a track has.
MaxFrames == 3

\* Largest number of levels processHierarchical returns.
MaxLevels == 2

\* Largest number of tracks get_dataset_files returns.
NTracks == 2

\* msaf.minimum__frames (read at run.py:106), scaled to the model's tracks.
minimum__frames == 2

\* Label values: -1 ("no labeling"), 0 (the default label), 1 (another class).
LabelVals == {-1, 0, 1}

None == "None"

\* ------------------------------------------------------- sequence helpers

Min(a, b) == IF a <= b THEN a ELSE b

Abs(a) == IF a >= 0 THEN a ELSE 0 - a

Last(s) == s[Len(s)]

\* All sequences over S of length lo..hi.
SeqsOf(S, lo, hi) == UNION {[1..n -> S] : n \in lo..hi}

IsAscending(s) == \A i \in 1..(Len(s) - 1) : s[i] < s[i + 1]

\* ------------------------------------------------------ algorithm catalog

\* The attributes of the package msaf.algorithms and their capability flags:
\* a boundary-only algorithm, one that does both, and a label-only one.
AlgorithmIds == {"foote", "cnmf", "fmc2d"}

is_boundary_type(module) == module \in {"foote", "cnmf"}

is_label_type(module) == module \in {"cnmf", "fmc2d"}

\* Identifiers a caller may pass; "nope" names no algorithm.
BoundaryIds == {"gt", "nope"} \cup AlgorithmIds

LabelIds == {None, "nope"} \cup AlgorithmIds

RuntimeError(msg) == [kind |-> "raise", type |-> "RuntimeError", msg |-> msg]

Resolved(module) == [kind |-> "ok", module |-> module]

\* run.py:21-45
get_boundaries_module(boundaries_id) ==
    IF boundaries_id = "gt" THEN Resolved(None)
    ELSE IF boundaries_id \notin AlgorithmIds
         THEN RuntimeError("can not be found in msaf")
    ELSE IF ~is_boundary_type(boundaries_id)
         THEN RuntimeError("can not identify boundaries")
    ELSE Resolved(boundaries_id)

\* run.py:48-72
get_labels_module(labels_id) ==
    IF labels_id = None THEN Resolved(None)
    ELSE IF labels_id \notin AlgorithmIds
         THEN RuntimeError("can not be found in msaf")
    ELSE IF ~is_label_type(labels_id)
         THEN RuntimeError("can not label segments")
    ELSE Resolved(labels_id)


\* ------------------------------------------- collaborators of run_algorithms

\* What io.get_features returns for a track, as far as run_algorithms reads
\* it: hpcp.shape[0] frames, one beat time per frame, and the duration.  The
\* first beat comes after 0, the last beat before the end.
BeatTimes(N) == [i \in 1..N |-> 2 * i - 1]

Duration(N) == 2 * N

FrameCounts == minimum__frames..MaxFrames

\* utils.get_time_frames(dur, anal): the uniform time grid from 0 to dur.
get_time_frames(d, N) == [i \in 1..N |-> ((i - 1) * d) \div (N - 1)]

\* The reference annotations io.read_references may return for a track of
\* duration d: boundary times on the even seconds, one label per segment.
RefTimes(d) ==
    {t \in SeqsOf({x \in 0..d : x % 2 = 0}, 2, 3) : IsAscending(t)}

References(d) ==
    UNION {{[times |-> t, labels |-> l] : l \in [1..(Len(t) - 1) -> LabelVals]} :
              t \in RefTimes(d)}

\* io.align_times(times, frames): the 0-based index of the frame nearest to
\* each time (the earlier frame on a tie).
NearestFrame(t, frames) ==
    CHOOSE i \in 1..Len(frames) :
        \A j \in 1..Len(frames) :
            \/ Abs(frames[i] - t) < Abs(frames[j] - t)
            \/ Abs(frames[i] - t) = Abs(frames[j] - t) /\ i <= j

align_times(times, frames) ==
    [k \in 1..Len(times) |-> NearestFrame(times[k], frames) - 1]

\* What a Segmenter's processFlat may return on a track of N frames: strictly
\* ascending 0-based frame indices, and either one label per segment or no
\* labels at all.
BoundIdxs(N) == {s \in SeqsOf(0..(N - 1), 1, N) : IsAscending(s)}

SegLabels(k) == [1..(k - 1) -> LabelVals] \cup {<<>>}

FlatOutputs(N) ==
    UNION {{[idxs |-> s, labels |-> l] : l \in SegLabels(Len(s))} :
              s \in BoundIdxs(N)}

\* What processHierarchical may return: 1..MaxLevels levels, each with
\* boundaries that include the first and the last frame and an alternating
\* labelling.
LevelOutputs(N) ==
    {[idxs |-> s, labels |-> [i \in 1..(Len(s) - 1) |-> i % 2]] :
        s \in {b \in BoundIdxs(N) : b[1] = 0 /\ Last(b) = N - 1 /\ Len(b) >= 2}}

HierOutputs(N) == SeqsOf(LevelOutputs(N), 1, MaxLevels)

\* ------------------------------------------------ BoundaryLabelNormalizer

RECURSIVE DropDuplicates(_)
DropDuplicates(s) ==
    IF Len(s) <= 1 THEN s
    ELSE LET rest == DropDuplicates(Tail(s))
         IN  IF s[1] = rest[1] THEN rest ELSE <<s[1]>> \o rest

\* utils.process_segmentation_level(est_idxs, est_labels, N, frame_times, dur):
\* indices clamped to the last frame, duplicates dropped, indices turned into
\* times, 0 and dur inserted when missing; the labels are kept when there is
\* one per segment and are the default label 0 otherwise.
process_segmentation_level(idxs, labels, N, times, d) ==
    LET clamped == [i \in 1..Len(idxs) |-> Min(idxs[i], N - 1)]
        kept    == DropDuplicates(clamped)
        t0      == [i \in 1..Len(kept) |-> times[kept[i] + 1]]
        t1      == IF t0 = <<>> \/ t0[1] # 0 THEN <<0>> \o t0 ELSE t0
        t2      == IF Last(t1) # d THEN Append(t1, d) ELSE t1
    IN  [times  |-> t2,
         labels |-> IF Len(labels) = Len(t2) - 1
                    THEN labels
                    ELSE [i \in 1..(Len(t2) - 1) |-> 0]]


\* ------------------------------------------------------------------ state

VARIABLES
    \* process
    pr_pc,          \* position in process
    in_path,        \* "file" (single file mode) or "dir" (collection mode)
    boundaries_id,  \* argument of process
    labels_id,      \* argument of process
    config,         \* the configuration dictionary: annot_beats, framesync, hier
    file_structs,   \* number of tracks get_dataset_files returned
    results,        \* per track of the collection: what its task ended with
    pr_out,         \* what process ended with
    \* process_track
    pt_pc,          \* position in process_track
    cur,            \* the track (file_struct) of the running task, 0 if none
    jam,            \* jam.beats: the data length of each beat layer
    pt_out,         \* what process_track ended with
    pt_calls,       \* the collaborators process_track called so far, in order
    \* run_algorithms
    ra_pc,          \* position in run_algorithms
    hpcp,           \* hpcp.shape[0]
    beats,
    dur,
    bounds_module,
    labels_module,
    frame_times,
    est_idxs,
    est_labels,
    est_times,
    cleaned_est_labels,
    level,          \* loop variable of the hierarchical normalisation
    ra_out,         \* what run_algorithms ended with
    calls           \* the calls run_algorithms made so far, in order

pr_vars == <<pr_pc, in_path, boundaries_id, labels_id, config, file_structs,
             results, pr_out>>

pt_vars == <<pt_pc, cur, jam, pt_out, pt_calls>>

ra_locals == <<hpcp, beats, dur, bounds_module, labels_module, frame_times,
               est_idxs, est_labels, est_times, cleaned_est_labels,
               level>>

ra_vars == <<ra_pc, ra_locals, ra_out, calls>>

vars == <<pr_vars, pt_vars, ra_vars>>

NoOutcome == [kind |-> "none"]

Return(times, labels) == [kind |-> "return", times |-> times, labels |-> labels]

\* One entry of calls.
Call(op, alg, how) == [op |-> op, alg |-> alg, how |-> how]

IsSegmenterCall(c) == c.op = "Segmenter"

SegmenterCalls == {i \in 1..Len(calls) : IsSegmenterCall(calls[i])}

ResolveCalls ==
    {i \in 1..Len(calls) :
        calls[i].op \in {"get_boundaries_module", "get_labels_module"}}

\* --------------------------------------------------------- run_algorithms

\* A frame of run_algorithms with nothing assigned yet.
ra_fresh ==
    /\ hpcp' = 0 /\ beats' = <<>> /\ dur' = 0
    /\ bounds_module' = None /\ labels_module' = None
    /\ frame_times' = <<>>
    /\ est_idxs' = <<>> /\ est_labels' = <<>> /\ est_times' = <<>>
    /\ cleaned_est_labels' = <<>>
    /\ level' = 0
    /\ ra_out' = NoOutcome
    /\ calls' = <<>>

\* The caller's call statement: fresh locals, control at the first line.
run_algorithms_call == ra_pc' = "get_features" /\ ra_fresh

\* The caller has taken what run_algorithms ended with: its frame is gone.
run_algorithms_exit == ra_pc' = "idle" /\ ra_fresh

\* run.py:99-103
RA_get_features ==
    /\ ra_pc = "get_features"
    /\ \E N \in FrameCounts :
          /\ hpcp' = N
          /\ beats' = BeatTimes(N)
          /\ dur' = Duration(N)
    /\ ra_pc' = "check_frames"
    /\ UNCHANGED <<bounds_module, labels_module, frame_times, est_idxs,
                   est_labels, est_times, cleaned_est_labels, level, ra_out,
                   calls>>
    /\ UNCHANGED <<pr_vars, pt_vars>>

\* The threshold test with < for <=.
too_few_frames_strict(N) == N < minimum__frames

\* run.py:106
too_few_frames(N) == N <= minimum__frames

\* The short-audio result without its label.
short_audio_result_unlabelled(d) == Return(<<0, d>>, <<>>)

\* run.py:109
short_audio_result(d) == Return(<<0, d>>, <<0>>)

\* run.py:105-109
RA_check_frames ==
    /\ ra_pc = "check_frames"
    /\ IF too_few_frames(hpcp)
       THEN /\ ra_out' = short_audio_result(dur)
            /\ ra_pc' = "done"
       ELSE /\ ra_out' = ra_out
            /\ ra_pc' = "get_boundaries_module"
    /\ UNCHANGED <<ra_locals, calls>>
    /\ UNCHANGED <<pr_vars, pt_vars>>

\* run.py:112
RA_get_boundaries_module ==
    /\ ra_pc = "get_boundaries_module"
    /\ calls' = Append(calls, Call("get_boundaries_module", boundaries_id, "resolve"))
    /\ LET r == get_boundaries_module(boundaries_id)
       IN  IF r.kind = "raise"
           THEN /\ ra_out' = r
                /\ ra_pc' = "done"
                /\ bounds_module' = bounds_module
           ELSE /\ bounds_module' = r.module
                /\ ra_pc' = "get_labels_module"
                /\ ra_out' = ra_out
    /\ UNCHANGED <<hpcp, beats, dur, labels_module, frame_times, est_idxs,
                   est_labels, est_times, cleaned_est_labels, level>>
    /\ UNCHANGED <<pr_vars, pt_vars>>

\* run.py:113
RA_get_labels_module ==
    /\ ra_pc = "get_labels_module"
    /\ calls' = Append(calls, Call("get_labels_module", labels_id, "resolve"))
    /\ LET r == get_labels_module(labels_id)
       IN  IF r.kind = "raise"
           THEN /\ ra_out' = r
                /\ ra_pc' = "done"
                /\ labels_module' = labels_module
           ELSE /\ labels_module' = r.module
                /\ ra_pc' = "frame_times"
                /\ ra_out' = ra_out
    /\ UNCHANGED <<hpcp, beats, dur, bounds_module, frame_times, est_idxs,
                   est_labels, est_times, cleaned_est_labels, level>>
    /\ UNCHANGED <<pr_vars, pt_vars>>

\* run.py:116-121
RA_frame_times ==
    /\ ra_pc = "frame_times"
    /\ frame_times' = IF config.framesync
                      THEN get_time_frames(dur, hpcp)
                      ELSE beats
    /\ ra_pc' = IF config.hier THEN "hier_check" ELSE "flat"
    /\ UNCHANGED <<hpcp, beats, dur, bounds_module, labels_module, est_idxs,
                   est_labels, est_times, cleaned_est_labels, level, ra_out,
                   calls>>
    /\ UNCHANGED <<pr_vars, pt_vars>>

\* The hierarchical requirements without the test for a boundary algorithm.
hier_check_no_boundary_test(bm, lm) ==
    IF lm # None /\ bm # lm
    THEN RuntimeError("The same algorithm for boundaries and labels is needed")
    ELSE [kind |-> "ok"]

\* The hierarchical requirements without the test for one and the same
\* algorithm.
hier_check_no_same_test(bm, lm) ==
    IF bm = None
    THEN RuntimeError("A boundary algorithm is needed")
    ELSE [kind |-> "ok"]

\* run.py:123-129: the two requirements of hierarchical segmentation.
hier_check(bm, lm) ==
    IF bm = None
    THEN RuntimeError("A boundary algorithm is needed")
    ELSE IF lm # None /\ bm # lm
    THEN RuntimeError("The same algorithm for boundaries and labels is needed")
    ELSE [kind |-> "ok"]

\* The hierarchical requirements tested after the Segmenter was constructed.
RA_hier_check_after_segmenter ==
    /\ ra_pc = "hier_check"
    /\ LET r == hier_check(bounds_module, labels_module)
       IN  IF r.kind = "raise"
           THEN /\ ra_out' = r /\ ra_pc' = "done"
                /\ calls' = Append(calls,
                                Call("Segmenter", bounds_module, "constructed"))
           ELSE /\ ra_out' = ra_out /\ ra_pc' = "hier_segment"
                /\ calls' = calls
    /\ UNCHANGED ra_locals
    /\ UNCHANGED <<pr_vars, pt_vars>>

\* run.py:121-129
RA_hier_check ==
    /\ ra_pc = "hier_check"
    /\ LET r == hier_check(bounds_module, labels_module)
       IN  IF r.kind = "raise"
           THEN ra_out' = r /\ ra_pc' = "done"
           ELSE ra_out' = ra_out /\ ra_pc' = "hier_segment"
    /\ UNCHANGED <<ra_locals, calls>>
    /\ UNCHANGED <<pr_vars, pt_vars>>

\* run.py:130-136
RA_hier_segment ==
    /\ ra_pc = "hier_segment"
    /\ calls' = Append(calls, Call("Segmenter", bounds_module, "processHierarchical"))
    /\ \E out \in HierOutputs(hpcp) :
          /\ est_idxs' = [l \in 1..Len(out) |-> out[l].idxs]
          /\ est_labels' = [l \in 1..Len(out) |-> out[l].labels]
    /\ est_times' = <<>>
    /\ cleaned_est_labels' = <<>>
    /\ level' = 0
    /\ ra_pc' = "hier_level"
    /\ UNCHANGED <<hpcp, beats, dur, bounds_module, labels_module, frame_times,
                   ra_out>>
    /\ UNCHANGED <<pr_vars, pt_vars>>

\* run.py:137-145: one iteration of the loop over the levels.
RA_hier_level ==
    /\ ra_pc = "hier_level"
    /\ level < Len(est_idxs)
    /\ LET r == process_segmentation_level(est_idxs[level + 1],
                    est_labels[level + 1], hpcp, frame_times, dur)
       IN  /\ est_times' = Append(est_times, r.times)
           /\ cleaned_est_labels' = Append(cleaned_est_labels, r.labels)
    /\ level' = level + 1
    /\ UNCHANGED <<ra_pc, hpcp, beats, dur, bounds_module, labels_module,
                   frame_times, est_idxs, est_labels, ra_out, calls>>
    /\ UNCHANGED <<pr_vars, pt_vars>>

\* run.py:146: the loop is over.
RA_hier_end ==
    /\ ra_pc = "hier_level"
    /\ level >= Len(est_idxs)
    /\ est_labels' = cleaned_est_labels
    /\ ra_pc' = "return"
    /\ UNCHANGED <<hpcp, beats, dur, bounds_module, labels_module, frame_times,
                   est_idxs, est_times, cleaned_est_labels, level, ra_out,
                   calls>>
    /\ UNCHANGED <<pr_vars, pt_vars>>

\* run.py:151-152: boundaries and labels come from the same algorithm.
same_algorithm(bm, lm) == bm # None /\ lm # None /\ bm = lm

\* run.py:151-154
RA_flat_same ==
    /\ ra_pc = "flat"
    /\ same_algorithm(bounds_module, labels_module)
    /\ calls' = Append(calls, Call("Segmenter", bounds_module, "processFlat"))
    /\ \E out \in FlatOutputs(hpcp) :
          /\ est_idxs' = out.idxs
          /\ est_labels' = out.labels
    /\ ra_pc' = "normalize"
    /\ UNCHANGED <<hpcp, beats, dur, bounds_module, labels_module, frame_times,
                   est_times, cleaned_est_labels, level, ra_out>>
    /\ UNCHANGED <<pr_vars, pt_vars>>

\* run.py:158-161
RA_flat_bounds ==
    /\ ra_pc = "flat"
    /\ ~same_algorithm(bounds_module, labels_module)
    /\ bounds_module # None
    /\ calls' = Append(calls, Call("Segmenter", bounds_module, "processFlat in_labels=[]"))
    /\ \E out \in FlatOutputs(hpcp) :
          /\ est_idxs' = out.idxs
          /\ est_labels' = out.labels
    /\ ra_pc' = "label"
    /\ UNCHANGED <<hpcp, beats, dur, bounds_module, labels_module, frame_times,
                   est_times, cleaned_est_labels, level, ra_out>>
    /\ UNCHANGED <<pr_vars, pt_vars>>

\* The failure to read the references, not caught.
no_references_propagates ==
    [kind |-> "raise", type |-> "IOError", msg |-> "No references found"]

\* run.py:169
no_references_result == Return(<<>>, <<>>)

\* run.py:162-169: the ground truth is read; any exception ends the call.
RA_read_references ==
    /\ ra_pc = "flat"
    /\ ~same_algorithm(bounds_module, labels_module)
    /\ bounds_module = None
    /\ \/ \E ref \in References(dur) :
             /\ calls' = Append(calls, Call("read_references", "gt", "ok"))
             /\ est_times' = ref.times
             /\ est_labels' = ref.labels
             /\ est_idxs' = align_times(ref.times,
                                SubSeq(frame_times, 1, Len(frame_times) - 1))
             /\ ra_pc' = "label"
             /\ ra_out' = ra_out
       \/ /\ calls' = Append(calls, Call("read_references", "gt", "raise"))
          /\ ra_out' = no_references_result
          /\ ra_pc' = "done"
          /\ UNCHANGED <<est_times, est_labels, est_idxs>>
    /\ UNCHANGED <<hpcp, beats, dur, bounds_module, labels_module, frame_times,
                   cleaned_est_labels, level>>
    /\ UNCHANGED <<pr_vars, pt_vars>>

\* The single-segment test counting segments where the code counts boundaries.
single_segment_off_by_one(idxs) == Len(idxs) = 1

\* run.py:173: a single segment is not handed to the labeling algorithm.
single_segment(idxs) == Len(idxs) = 2

\* run.py:171-179
RA_label ==
    /\ ra_pc = "label"
    /\ IF labels_module # None
       THEN IF single_segment(est_idxs)
            THEN /\ est_labels' = <<0>>
                 /\ calls' = calls
            ELSE /\ calls' = Append(calls,
                        Call("Segmenter", labels_module, "processFlat in_bound_idxs"))
                 /\ \E l \in SegLabels(Len(est_idxs)) : est_labels' = l
       ELSE /\ est_labels' = est_labels
            /\ calls' = calls
    /\ ra_pc' = "normalize"
    /\ UNCHANGED <<hpcp, beats, dur, bounds_module, labels_module, frame_times,
                   est_idxs, est_times, cleaned_est_labels, level, ra_out>>
    /\ UNCHANGED <<pr_vars, pt_vars>>

\* run.py:181-183
RA_normalize ==
    /\ ra_pc = "normalize"
    /\ LET r == process_segmentation_level(est_idxs, est_labels, hpcp,
                                           frame_times, dur)
       IN  /\ est_times' = r.times
           /\ est_labels' = r.labels
    /\ ra_pc' = "return"
    /\ UNCHANGED <<hpcp, beats, dur, bounds_module, labels_module, frame_times,
                   est_idxs, cleaned_est_labels, level, ra_out, calls>>
    /\ UNCHANGED <<pr_vars, pt_vars>>

\* run.py:185
RA_return ==
    /\ ra_pc = "return"
    /\ ra_out' = Return(est_times, est_labels)
    /\ ra_pc' = "done"
    /\ UNCHANGED <<ra_locals, calls>>
    /\ UNCHANGED <<pr_vars, pt_vars>>

\* ---------------------------------------------------------- process_track

\* jam.beats as jams2.load may return it: up to two beat layers, each with
\* the length of its data.
Jams == SeqsOf(0..1, 0, 2)

\* The beat test looking at every layer where the code looks at the first.
has_beat_information_any_layer(j) ==
    Len(j) > 0 /\ \E i \in 1..Len(j) : j[i] > 0

\* run.py:213
has_beat_information(j) == Len(j) > 0 /\ j[1] > 0

Skipped == [kind |-> "skip"]

\* The caller's call statement.
process_track_call(t) ==
    /\ cur' = t
    /\ pt_pc' = "annot_beats"
    /\ jam' = <<>>
    /\ pt_out' = NoOutcome
    /\ pt_calls' = <<>>

\* run.py:210-218
PT_annot_beats ==
    /\ pt_pc = "annot_beats"
    /\ IF config.annot_beats
       THEN /\ pt_calls' = Append(pt_calls, "jams2.load")
            /\ \E j \in Jams :
                  /\ jam' = j
                  /\ IF has_beat_information(j)
                     THEN pt_pc' = "features" /\ pt_out' = pt_out
                     ELSE pt_pc' = "done" /\ pt_out' = Skipped
       ELSE /\ pt_pc' = "features"
            /\ UNCHANGED <<jam, pt_out, pt_calls>>
    /\ UNCHANGED cur
    /\ UNCHANGED <<pr_vars, ra_vars>>

\* run.py:220-228: the features are computed when their file is missing, and
\* run_algorithms is called.
PT_run_algorithms ==
    /\ pt_pc = "features"
    /\ \E isfile \in BOOLEAN :
          pt_calls' = IF isfile
                      THEN Append(pt_calls, "run_algorithms")
                      ELSE pt_calls \o <<"compute_all_features", "run_algorithms">>
    /\ pt_pc' = "run_algorithms"
    /\ run_algorithms_call
    /\ UNCHANGED <<cur, jam, pt_out>>
    /\ UNCHANGED pr_vars

\* run.py:227-235: run_algorithms is back; its exception propagates, its
\* result is saved and returned.
PT_save ==
    /\ pt_pc = "run_algorithms"
    /\ ra_pc = "done"
    /\ IF ra_out.kind = "raise"
       THEN /\ pt_out' = ra_out
            /\ pt_calls' = pt_calls
       ELSE /\ pt_out' = ra_out
            /\ pt_calls' = Append(pt_calls, "save_estimations")
    /\ pt_pc' = "done"
    /\ run_algorithms_exit
    /\ UNCHANGED <<cur, jam>>
    /\ UNCHANGED pr_vars

\* ---------------------------------------------------------------- process

Configs == [annot_beats : BOOLEAN, framesync : BOOLEAN, hier : BOOLEAN]

\* run.py:238-296: the call of process.  The configuration is the one built
\* from the arguments (or the caller's own), with its hier flag.
P_call ==
    /\ pr_pc = "idle"
    /\ in_path' \in {"file", "dir"}
    /\ boundaries_id' \in BoundaryIds
    /\ labels_id' \in LabelIds
    /\ config' \in Configs
    /\ pr_pc' = IF in_path' = "file" THEN "single" ELSE "collection"
    /\ UNCHANGED <<file_structs, results, pr_out>>
    /\ UNCHANGED <<pt_vars, ra_vars>>

\* run.py:296-319: single file mode, up to the call of run_algorithms.
P_single_run ==
    /\ pr_pc = "single"
    /\ pr_pc' = "single_run"
    /\ run_algorithms_call
    /\ UNCHANGED <<in_path, boundaries_id, labels_id, config, file_structs,
                   results, pr_out>>
    /\ UNCHANGED pt_vars

\* run.py:318-331: run_algorithms is back; its exception propagates, its
\* result is sonified and plotted on request and returned.
P_single_return ==
    /\ pr_pc = "single_run"
    /\ ra_pc = "done"
    /\ \E sonify_bounds \in BOOLEAN, plot \in BOOLEAN :
          pr_out' = IF ra_out.kind = "raise"
                    THEN ra_out
                    ELSE [kind |-> "return", value |-> ra_out,
                          sonified |-> sonify_bounds, plotted |-> plot]
    /\ pr_pc' = "done"
    /\ run_algorithms_exit
    /\ UNCHANGED <<in_path, boundaries_id, labels_id, config, file_structs,
                   results>>
    /\ UNCHANGED pt_vars

\* run.py:332-334: collection mode, the tracks of the dataset.
P_collection ==
    /\ pr_pc = "collection"
    /\ \E n \in 0..NTracks :
          /\ file_structs' = n
          /\ results' = [t \in 1..n |-> "pending"]
    /\ pr_pc' = "parallel"
    /\ UNCHANGED <<in_path, boundaries_id, labels_id, config, pr_out>>
    /\ UNCHANGED <<pt_vars, ra_vars>>

Pending == {t \in 1..file_structs : results[t] = "pending"}

Raised == {t \in 1..file_structs : results[t] = "raise"}

\* run.py:337-339: Parallel starts the next task, in the order of the list.
\* After a task has raised, the tasks already handed to other workers may
\* still run.
Parallel_dispatch ==
    /\ pr_pc = "parallel"
    /\ pt_pc = "idle"
    /\ Pending # {}
    /\ process_track_call(CHOOSE t \in Pending : \A u \in Pending : t <= u)
    /\ UNCHANGED pr_vars
    /\ UNCHANGED ra_vars

\* run.py:337-339: a task has ended; Parallel keeps what it returned.
Parallel_collect ==
    /\ pr_pc = "parallel"
    /\ pt_pc = "done"
    /\ results' = [results EXCEPT ![cur] = pt_out.kind]
    /\ pt_pc' = "idle"
    /\ cur' = 0
    /\ jam' = <<>>
    /\ pt_out' = NoOutcome
    /\ pt_calls' = <<>>
    /\ UNCHANGED <<pr_pc, in_path, boundaries_id, labels_id, config,
                   file_structs, pr_out>>
    /\ UNCHANGED ra_vars

\* run.py:337-339: every task has returned; process returns the list.
Parallel_return ==
    /\ pr_pc = "parallel"
    /\ pt_pc = "idle"
    /\ Pending = {} /\ Raised = {}
    /\ pr_out' = [kind |-> "return", value |-> results]
    /\ pr_pc' = "done"
    /\ UNCHANGED <<in_path, boundaries_id, labels_id, config, file_structs,
                   results>>
    /\ UNCHANGED <<pt_vars, ra_vars>>

\* run.py:337-339: a task has raised; Parallel raises its exception out of
\* process, and no list is returned.
Parallel_raise ==
    /\ pr_pc = "parallel"
    /\ pt_pc = "idle"
    /\ Raised # {}
    /\ pr_out' = [kind |-> "raise", type |-> "RuntimeError", msg |-> "from a task"]
    /\ pr_pc' = "done"
    /\ UNCHANGED <<in_path, boundaries_id, labels_id, config, file_structs,
                   results>>
    /\ UNCHANGED <<pt_vars, ra_vars>>

\* ---------------------------------------------------------- specification

Init ==
    /\ pr_pc = "idle"
    /\ in_path = "file"
    /\ boundaries_id = "gt"
    /\ labels_id = None
    /\ config = [annot_beats |-> FALSE, framesync |-> FALSE, hier |-> FALSE]
    /\ file_structs = 0
    /\ results = <<>>
    /\ pr_out = NoOutcome
    /\ pt_pc = "idle"
    /\ cur = 0
    /\ jam = <<>>
    /\ pt_out = NoOutcome
    /\ pt_calls = <<>>
    /\ ra_pc = "idle"
    /\ hpcp = 0
    /\ beats = <<>>
    /\ dur = 0
    /\ bounds_module = None
    /\ labels_module = None
    /\ frame_times = <<>>
    /\ est_idxs = <<>>
    /\ est_labels = <<>>
    /\ est_times = <<>>
    /\ cleaned_est_labels = <<>>
    /\ level = 0
    /\ ra_out = NoOutcome
    /\ calls = <<>>

Next ==
    \/ P_call
    \/ P_single_run
    \/ P_single_return
    \/ P_collection
    \/ Parallel_dispatch
    \/ Parallel_collect
    \/ Parallel_return
    \/ Parallel_raise
    \/ PT_annot_beats
    \/ PT_run_algorithms
    \/ PT_save
    \/ RA_get_features
    \/ RA_check_frames
    \/ RA_get_boundaries_module
    \/ RA_get_labels_module
    \/ RA_frame_times
    \/ RA_hier_check
    \/ RA_hier_segment
    \/ RA_hier_level
    \/ RA_hier_end
    \/ RA_flat_same
    \/ RA_flat_bounds
    \/ RA_read_references
    \/ RA_label
    \/ RA_normalize
    \/ RA_return

Spec == Init /\ [][Next]_vars

\* ----------------------------------------------------------- properties

\* run_algorithms has ended (and its caller has not yet taken the outcome).
RA_done == ra_pc = "done"

RA_returned == RA_done /\ ra_out.kind = "return"

RA_raised == RA_done /\ ra_out.kind = "raise"

EnoughFrames == hpcp > minimum__frames

LabelsResolve == labels_id = None \/ labels_id \in {"cnmf", "fmc2d"}

BoundsResolveToAlgorithm == boundaries_id \in {"foote", "cnmf"}

MissingBoundaryAlgorithm == "A boundary algorithm is needed"

IncompatibleHierarchicalAlgorithms ==
    "The same algorithm for boundaries and labels is needed"

ReferencesRead ==
    \E i \in 1..Len(calls) : calls[i] = Call("read_references", "gt", "ok")

\* C1, as stated: every hierarchical call with boundaries_id = "gt" ends
\* with the MissingBoundaryAlgorithm error, for every track and labels_id.
C1_HierGroundTruthFailsOnEveryTrack ==
    (RA_done /\ config.hier /\ boundaries_id = "gt")
        => /\ ra_out.kind = "raise"
           /\ ra_out.msg = MissingBoundaryAlgorithm

\* C1, amended: a hierarchical call with boundaries_id = "gt" on a track
\* with more than minimum__frames frames ends with a RuntimeError and returns
\* no result; the error is MissingBoundaryAlgorithm when labels_id is None
\* or names a labeling algorithm, and the error of resolving labels_id
\* otherwise.
C1_HierGroundTruthFails ==
    (RA_done /\ config.hier /\ boundaries_id = "gt" /\ EnoughFrames)
        => /\ ra_out.kind = "raise"
           /\ ra_out.type = "RuntimeError"
           /\ IF LabelsResolve
              THEN ra_out.msg = MissingBoundaryAlgorithm
              ELSE ra_out.msg \in {"can not be found in msaf",
                                   "can not label segments"}

C1_Witness ==
    /\ RA_raised /\ config.hier /\ boundaries_id = "gt" /\ EnoughFrames
    /\ labels_id = "fmc2d"
    /\ ra_out.msg = MissingBoundaryAlgorithm

\* C2, as stated: every hierarchical call whose boundaries_id and labels_id
\* resolve to two different algorithms ends with the
\* IncompatibleHierarchicalAlgorithms error, for every track.
C2_HierTwoAlgorithmsFailOnEveryTrack ==
    (RA_done /\ config.hier /\ BoundsResolveToAlgorithm
        /\ labels_id \in {"cnmf", "fmc2d"} /\ boundaries_id # labels_id)
        => /\ ra_out.kind = "raise"
           /\ ra_out.msg = IncompatibleHierarchicalAlgorithms

\* C2, amended: a hierarchical call whose boundaries_id and labels_id
\* resolve to two different algorithms, on a track with more than
\* minimum__frames frames, ends with the IncompatibleHierarchicalAlgorithms
\* error (a RuntimeError) and returns no result.
C2_HierTwoAlgorithmsFail ==
    (RA_done /\ config.hier /\ BoundsResolveToAlgorithm
        /\ labels_id \in {"cnmf", "fmc2d"} /\ boundaries_id # labels_id
        /\ EnoughFrames)
        => /\ ra_out.kind = "raise"
           /\ ra_out.type = "RuntimeError"
           /\ ra_out.msg = IncompatibleHierarchicalAlgorithms

C2_Witness ==
    /\ RA_raised /\ config.hier /\ EnoughFrames
    /\ boundaries_id = "foote" /\ labels_id = "fmc2d"
    /\ ra_out.msg = IncompatibleHierarchicalAlgorithms

C4_BatchIsolatesFailures ==
    (pr_pc = "done" /\ in_path = "dir")
        => /\ pr_out.kind = "return"
           /\ \A t \in 1..file_structs : results[t] # "pending"

\* C5, as stated: in flat mode, two boundaries and a labeling algorithm give
\* the normalizer the labels [0] with no call of the labeling algorithm's
\* Segmenter, whether or not it is also the boundary algorithm.
C5_SingleSegmentNeverLabelled ==
    (ra_pc = "normalize" /\ Len(est_idxs) = 2 /\ labels_module # None)
        => /\ est_labels = <<0>>
           /\ \A i \in SegmenterCalls : calls[i].alg # labels_module

\* C5, amended: in flat mode, two boundaries and a labeling algorithm that
\* is not the boundary algorithm give the normalizer the labels [0] with no
\* call of the labeling algorithm's Segmenter; when the labeling algorithm
\* is the boundary algorithm, its Segmenter was invoked once, for
\* boundaries and labels together.
C5_SingleSegmentNotLabelled ==
    (ra_pc = "normalize" /\ Len(est_idxs) = 2 /\ labels_module # None)
        => IF bounds_module # labels_module
           THEN /\ est_labels = <<0>>
                /\ \A i \in SegmenterCalls : calls[i].alg # labels_module
           ELSE /\ Cardinality(SegmenterCalls) = 1
                /\ \A i \in SegmenterCalls :
                      calls[i] = Call("Segmenter", labels_module, "processFlat")

C5_Witness ==
    /\ ra_pc = "normalize" /\ Len(est_idxs) = 2
    /\ bounds_module = "foote" /\ labels_module = "fmc2d"
    /\ est_labels = <<0>>
    /\ Cardinality(SegmenterCalls) = 1

\* C6, as stated: every pair run_algorithms returns in flat mode has one
\* label less than it has boundary times, on every return path.
C6_LabelsOneFewerOnEveryPath ==
    (RA_returned /\ ~config.hier)
        => Len(ra_out.labels) = Len(ra_out.times) - 1

\* C6, amended: every pair run_algorithms returns in flat mode, other than
\* the empty pair ([], []) of the missing-reference return, has one label
\* less than it has boundary times.
C6_LabelsOneFewer ==
    (RA_returned /\ ~config.hier /\ ra_out # Return(<<>>, <<>>))
        => Len(ra_out.labels) = Len(ra_out.times) - 1

C6_Witness ==
    /\ RA_returned /\ ~config.hier
    /\ Len(ra_out.times) = 4 /\ Len(ra_out.labels) = 3
    /\ \E i \in SegmenterCalls : calls[i].how = "processFlat in_bound_idxs"

\* C7, as stated: a flat call with boundaries_id = "gt" on a track with
\* enough frames whose references cannot be read (so no call reads them)
\* returns ([], []) for every labels_id.
C7_NoReferencesEmptyForEveryLabelsId ==
    (RA_done /\ ~config.hier /\ boundaries_id = "gt" /\ EnoughFrames
        /\ ~ReferencesRead)
        => ra_out = Return(<<>>, <<>>)

\* C7, amended: such a call invokes no Segmenter; it returns ([], []) and
\* raises nothing when labels_id is None or names a labeling algorithm, and
\* it ends with the error of resolving labels_id otherwise.
C7_NoReferencesEmpty ==
    (RA_done /\ ~config.hier /\ boundaries_id = "gt" /\ EnoughFrames
        /\ ~ReferencesRead)
        => /\ SegmenterCalls = {}
           /\ IF LabelsResolve
              THEN ra_out = Return(<<>>, <<>>)
              ELSE /\ ra_out.kind = "raise"
                   /\ ra_out.msg \in {"can not be found in msaf",
                                      "can not label segments"}

C7_Witness ==
    /\ RA_done /\ ~config.hier /\ boundaries_id = "gt" /\ EnoughFrames
    /\ labels_id = "fmc2d"
    /\ Len(calls) = 3
    /\ calls[3] = Call("read_references", "gt", "raise")
    /\ ra_out = Return(<<>>, <<>>)

\* C8, as stated: when labels_id is None every label of the pair
\* run_algorithms returns is -1.
C8_NoLabelingGivesMinusOne ==
    (RA_returned /\ ~config.hier /\ labels_id = None)
        => \A i \in 1..Len(ra_out.labels) : ra_out.labels[i] = -1

\* C9: when the configuration asks for annotated beats and the jams file has
\* no beat layer, or a first beat layer without data, process_track ends
\* right after loading it: it returns the skip marker, raises nothing, and
\* computes no features, runs no algorithm and saves nothing.
C9_NoBeatsSkipsTrack ==
    (pt_pc \notin {"idle", "annot_beats"} /\ config.annot_beats
        /\ (Len(jam) = 0 \/ jam[1] = 0))
        => /\ pt_pc = "done"
           /\ pt_out = Skipped
           /\ pt_calls = <<"jams2.load">>
           /\ ra_pc = "idle"

C9_Witness ==
    /\ pt_pc = "done" /\ config.annot_beats
    /\ jam = <<0, 1>>
    /\ pt_out = Skipped

\* C10: when run_algorithms ends with a configuration error (an unknown
\* identifier, an identifier without the capability asked of it,
\* hierarchical mode without a boundary algorithm or with two algorithms),
\* no Segmenter was constructed or invoked in that call.
C10_ConfigurationErrorsBeforeSegmenters ==
    RA_raised
        => /\ ra_out.msg \in {"can not be found in msaf",
                              "can not identify boundaries",
                              "can not label segments",
                              MissingBoundaryAlgorithm,
                              IncompatibleHierarchicalAlgorithms}
           /\ SegmenterCalls = {}

C10_Witness ==
    /\ RA_raised
    /\ ra_out.msg = IncompatibleHierarchicalAlgorithms
    /\ Cardinality(ResolveCalls) = 2
    /\ SegmenterCalls = {}

=============================================================================
